---- MODULE Spec2Model ----
(***************************************************************************)
(* Model of scrape_gdax.py: the paginated backward fetch of price history  *)
(* (get_history), the CSV writer (write_history_csv) and the command line  *)
(* driver (__main__).                                                      *)
(*                                                                         *)
(* Times are integer seconds.  Python values are tagged records so that a  *)
(* number, None and a string stay distinguishable; a bar is a list of      *)
(* values or (when a mapping was iterated) a string key.  Every page the   *)
(* API client returns holds fresh objects, so History has no aliased bars  *)
(* and in-place mutation of a bar is an update of that position.           *)
(***************************************************************************)
EXTENDS Integers, Sequences, FiniteSets, TLC

VARIABLES
    pc,          \* position of the sequential program
    start_date,  \* -s argument: "none" | "bad" | "ok"
    pages,       \* pages argument
    granularity, \* -g argument
    start_utc,   \* parsed / current time (line 143 / 149)
    date,        \* get_history's date parameter (rounded start)
    start,       \* moving cursor (window start)
    end,         \* window end
    i,           \* loop counter of get_history
    new_history, \* last API response
    history,     \* the History list object
    ret,         \* what get_history returned: "unset" | "None" | "list"
    log,         \* external events: API calls and rate limit pauses, in order
    responses,   \* every API response received, in call order
    fileOpened,  \* the output file was opened for writing
    rows,        \* rows of the output file
    widx,        \* position of write_history_csv's loop (1-based)
    orig,        \* History as handed to the current write_history_csv call
    writes,      \* number of write_history_csv calls started
    exc,         \* uncaught exception that ended the run, or "none"
    printed      \* the invalid-date message was printed

vars == <<pc, start_date, pages, granularity, start_utc, date, start, end, i,
          new_history, history, ret, log, responses, fileOpened, rows, widx,
          orig, writes, exc, printed>>

(* ------------------------------ constants ------------------------------ *)

GRANULARITY == 60

MAX_RESULTS == 200

\* Largest timestamp datetime.fromtimestamp converts (stand-in for the
\* platform's year-9999 limit, scaled to TLC's integers).
MaxTs == 2000000000

\* Largest pages argument explored.
MaxPages == 2

\* Most bars in one API response.
MaxPageLen == 2

\* Longest History handed directly to write_history_csv.
MaxBars == 3

\* write_history_csv calls a caller makes on one History.
MaxWrites == 2

(* -------------------------------- values ------------------------------- *)

Num(n) == [t |-> "num", n |-> n, s |-> ""]

NoneV == [t |-> "none", n |-> 0, s |-> ""]

Str(s) == [t |-> "str", n |-> 0, s |-> s]

\* datetime.fromtimestamp(n).isoformat(' '): a string naming the local time n
DateStr(n) == [t |-> "str", n |-> n, s |-> "YYYY-MM-DD HH:MM:SS"]

ListBar(f) == [k |-> "list", f |-> f]

\* a str used as a bar: indexable, its items are one-character strings
StrBar(chars) == [k |-> "str", f |-> chars]

BarOk1 == ListBar(<<Num(1609459200), Num(100), Num(110)>>)

BarOk2 == ListBar(<<Num(1609459260), Num(105), Num(95)>>)

BarNone == ListBar(<<NoneV, Num(100)>>)

BarStr == ListBar(<<Str("n/a"), Num(100)>>)

BarEmpty == ListBar(<< >>)

BarHuge == ListBar(<<Num(MaxTs + 1), Num(100)>>)

\* the key of an API error object {"message": ...}
KeyMessage == StrBar(<<Str("m"), Str("e"), Str("s"), Str("s"), Str("a"), Str("g"), Str("e")>>)

ApiBars == {BarOk1, BarOk2}

WriterBars == {BarOk1, BarOk2, BarNone, BarStr, BarEmpty, BarHuge, KeyMessage}

SeqsUpTo(S, n) == UNION {[1..m -> S] : m \in 0..n}

ListPage(items) == [k |-> "list", items |-> items]

\* JSON error object: a mapping; iterating it yields its keys
DictPage == [k |-> "dict", items |-> <<KeyMessage>>]

\* JSON null: not iterable
NullPage == [k |-> "null", items |-> << >>]

NoPage == [k |-> "unset", items |-> << >>]

ApiResponses == {ListPage(s) : s \in SeqsUpTo(ApiBars, MaxPageLen)} \cup {DictPage, NullPage}

ParsedTimes == {1500027572}

NowTimes == {1510000017}

Granularities == {GRANULARITY, 300}

StaleRow == <<Str("stale")>>

CallEv(ws, we) == [e |-> "call", ws |-> ws, we |-> we]

SleepEv == [e |-> "sleep", ws |-> 0, we |-> 0]

(* ------------------------------- helpers ------------------------------- *)

\* variant: an unparsable date falls back to the current time
ParseStartDateFallback(sd) ==
    IF sd = "ok" THEN "ok" ELSE "TypeError"

\* lines 142-149: strptime on the -s argument
ParseStartDate(sd) ==
    IF sd = "bad" THEN "ValueError"
    ELSE IF sd = "none" THEN "TypeError"
    ELSE "ok"

\* lines 159-162: round the start down to a multiple of the granularity
RoundStart(t, g) == t - (t % g)

\* variant: the page size is left out of the window length
WindowStartNoPageSize(e, g) == e - g

\* line 51: start = end - timedelta(seconds=granularity * MAX_RESULTS)
WindowStart(e, g) == e - g * MAX_RESULTS

\* line 62: history += new_history raises TypeError iff new_history is not iterable
Iterable(page) == page.k \in {"list", "dict"}

\* variant: history = new_history instead of +=
ExtendAssign(h, page) == page.items

\* line 62: list += iterable appends the iterable's items (a mapping's keys)
Extend(h, page) == h \o page.items

\* variant: a first field that is not a number is kept as it is
ConvertFieldKeepRaw(bar) ==
    IF Len(bar.f) = 0 THEN [err |-> "IndexError", d |-> NoneV]
    ELSE IF bar.f[1].t # "num" THEN [err |-> "none", d |-> bar.f[1]]
    ELSE IF bar.f[1].n > MaxTs THEN [err |-> "OverflowError", d |-> NoneV]
    ELSE [err |-> "none", d |-> DateStr(bar.f[1].n)]

\* line 87: datetime.fromtimestamp(bar[0]).isoformat(' '), with the exception raised
ConvertField(bar) ==
    IF Len(bar.f) = 0 THEN [err |-> "IndexError", d |-> NoneV]
    ELSE IF bar.f[1].t # "num" THEN [err |-> "TypeError", d |-> NoneV]
    ELSE IF bar.f[1].n > MaxTs THEN [err |-> "OverflowError", d |-> NoneV]
    ELSE [err |-> "none", d |-> DateStr(bar.f[1].n)]

\* variant: the assignment to bar[0] is lost
SetFirstLost(bar, d) == bar

\* line 92: bar[0] = date, in place
SetFirst(bar, d) == [bar EXCEPT !.f = [bar.f EXCEPT ![1] = d]]

\* line 94: writer.writerow(bar): one row, the bar's fields in order
RowOf(bar) == bar.f

(* -------------------------------- __main__ ----------------------------- *)

\* lines 141-149
Main_Parse ==
    /\ pc = "main"
    /\ LET r == ParseStartDate(start_date) IN
         IF r = "ValueError"
           THEN /\ printed' = TRUE
                /\ exc' = "SystemExit"
                /\ pc' = "exit"
                /\ UNCHANGED start_utc
           ELSE /\ start_utc' \in (IF r = "TypeError" THEN NowTimes ELSE ParsedTimes)
                /\ pc' = "round"
                /\ UNCHANGED <<printed, exc>>
    /\ UNCHANGED <<start_date, pages, granularity, date, start, end, i, new_history,
                   history, ret, log, responses, fileOpened, rows, widx, orig, writes>>

\* lines 151-166: round, build the file name, call get_history
Main_Round ==
    /\ pc = "round"
    /\ date' = RoundStart(start_utc, granularity)
    /\ pc' = "get_history"
    /\ UNCHANGED <<start_date, pages, granularity, start_utc, start, end, i, new_history,
                   history, ret, log, responses, fileOpened, rows, widx, orig, writes,
                   exc, printed>>

(* ------------------------------ get_history ---------------------------- *)

\* lines 37-44
GetHistory_Enter ==
    /\ pc = "get_history"
    /\ IF pages < 1
         THEN /\ ret' = "None"
              /\ pc' = "write_open"
              /\ UNCHANGED <<start, history, i>>
         ELSE /\ start' = date
              /\ history' = << >>
              /\ i' = 0
              /\ pc' = "loop"
              /\ UNCHANGED ret
    /\ UNCHANGED <<start_date, pages, granularity, start_utc, date, end, new_history,
                   log, responses, fileOpened, rows, widx, orig, writes, exc, printed>>

\* lines 46-58: next window and the API call; line 71 when the range is exhausted
GetHistory_Request ==
    /\ pc = "loop"
    /\ IF i < pages
         THEN /\ end' = start
              /\ start' = WindowStart(start, granularity)
              /\ log' = Append(log, CallEv(start', end'))
              /\ \E r \in ApiResponses :
                    /\ new_history' = r
                    /\ responses' = Append(responses, r)
              /\ pc' = "extend"
              /\ UNCHANGED ret
         ELSE /\ ret' = "list"
              /\ pc' = "write_open"
              /\ UNCHANGED <<start, end, log, new_history, responses>>
    /\ UNCHANGED <<start_date, pages, granularity, start_utc, date, i, history,
                   fileOpened, rows, widx, orig, writes, exc, printed>>

\* lines 61-65: history += new_history; a TypeError is logged and the loop continues
GetHistory_Extend ==
    /\ pc = "extend"
    /\ IF Iterable(new_history)
         THEN /\ history' = Extend(history, new_history)
              /\ pc' = "sleep"
              /\ UNCHANGED i
         ELSE /\ i' = i + 1
              /\ pc' = "loop"
              /\ UNCHANGED history
    /\ UNCHANGED <<start_date, pages, granularity, start_utc, date, start, end,
                   new_history, ret, log, responses, fileOpened, rows, widx, orig,
                   writes, exc, printed>>

\* lines 67-69
GetHistory_Sleep ==
    /\ pc = "sleep"
    /\ log' = Append(log, SleepEv)
    /\ i' = i + 1
    /\ pc' = "loop"
    /\ UNCHANGED <<start_date, pages, granularity, start_utc, date, start, end,
                   new_history, history, ret, responses, fileOpened, rows, widx, orig,
                   writes, exc, printed>>

(* --------------------------- write_history_csv ------------------------- *)

\* lines 81-84: open (truncate) the file and start iterating history
Write_Open ==
    /\ pc = "write_open"
    /\ fileOpened' = TRUE
    /\ rows' = << >>
    /\ writes' = writes + 1
    /\ orig' = history
    /\ widx' = 1
    /\ IF ret = "None"
         THEN /\ exc' = "TypeError"
              /\ pc' = "exit"
         ELSE /\ exc' = "none"
              /\ pc' = "write_loop"
    /\ UNCHANGED <<start_date, pages, granularity, start_utc, date, start, end, i,
                   new_history, history, ret, log, responses, printed>>

\* lines 84-94: one bar
Write_Bar ==
    /\ pc = "write_loop"
    /\ IF widx > Len(history)
         THEN /\ pc' = "exit"
              /\ UNCHANGED <<history, rows, widx, exc>>
         ELSE LET c == ConvertField(history[widx]) IN
              IF c.err = "TypeError"
                THEN /\ widx' = widx + 1
                     /\ UNCHANGED <<history, rows, exc, pc>>
              ELSE IF c.err # "none"
                THEN /\ exc' = c.err
                     /\ pc' = "exit"
                     /\ UNCHANGED <<history, rows, widx>>
              ELSE /\ history' = [history EXCEPT ![widx] = SetFirst(history[widx], c.d)]
                   /\ rows' = Append(rows, RowOf(history'[widx]))
                   /\ widx' = widx + 1
                   /\ UNCHANGED <<exc, pc>>
    /\ UNCHANGED <<start_date, pages, granularity, start_utc, date, start, end, i,
                   new_history, ret, log, responses, fileOpened, orig, writes, printed>>

\* a caller of write_history_csv hands it the same History object again
Write_Again ==
    /\ pc = "exit"
    /\ writes < MaxWrites
    /\ pc' = "write_open"
    /\ UNCHANGED <<start_date, pages, granularity, start_utc, date, start, end, i,
                   new_history, history, ret, log, responses, fileOpened, rows, widx,
                   orig, writes, exc, printed>>

(* ---------------------------- specifications --------------------------- *)

Init ==
    /\ pc = "main"
    /\ start_date \in {"none", "bad", "ok"}
    /\ pages \in 0..MaxPages
    /\ granularity \in Granularities
    /\ start_utc = 0
    /\ date = 0
    /\ start = 0
    /\ end = 0
    /\ i = 0
    /\ new_history = NoPage
    /\ history = << >>
    /\ ret = "unset"
    /\ log = << >>
    /\ responses = << >>
    /\ fileOpened = FALSE
    /\ rows = <<StaleRow>>
    /\ widx = 0
    /\ orig = << >>
    /\ writes = 0
    /\ exc = "none"
    /\ printed = FALSE

Next ==
    \/ Main_Parse
    \/ Main_Round
    \/ GetHistory_Enter
    \/ GetHistory_Request
    \/ GetHistory_Extend
    \/ GetHistory_Sleep
    \/ Write_Open
    \/ Write_Bar

Spec == Init /\ [][Next]_vars

\* write_history_csv called directly on a History
InitWriter ==
    /\ pc = "write_open"
    /\ start_date = "none"
    /\ pages = 0
    /\ granularity = GRANULARITY
    /\ start_utc = 0
    /\ date = 0
    /\ start = 0
    /\ end = 0
    /\ i = 0
    /\ new_history = NoPage
    /\ history \in SeqsUpTo(WriterBars, MaxBars)
    /\ ret = "list"
    /\ log = << >>
    /\ responses = << >>
    /\ fileOpened = FALSE
    /\ rows = <<StaleRow>>
    /\ widx = 0
    /\ orig = << >>
    /\ writes = 0
    /\ exc = "none"
    /\ printed = FALSE

NextWriter ==
    \/ Write_Open
    \/ Write_Bar
    \/ Write_Again

SpecWriter == InitWriter /\ [][NextWriter]_vars

(* ------------------------------- properties ---------------------------- *)

\* the API calls made so far, in order
Calls == SelectSeq(log, LAMBDA ev : ev.e = "call")

IsPrefix(s, t) == Len(s) <= Len(t) /\ SubSeq(t, 1, Len(s)) = s

RECURSIVE ConcatListPages(_)
\* the bars of the pages that are lists, concatenated in call order
ConcatListPages(rs) ==
    IF rs = << >> THEN << >>
    ELSE (IF Head(rs).k = "list" THEN Head(rs).items ELSE << >>) \o ConcatListPages(Tail(rs))

\* the bar has a first field and it is a number fromtimestamp converts
NumericFirst(bar) == Len(bar.f) > 0 /\ bar.f[1].t = "num" /\ bar.f[1].n <= MaxTs

\* the bar has a first field and it is None or a string
NonNumericFirst(bar) == Len(bar.f) > 0 /\ bar.f[1].t \in {"none", "str"}

RECURSIVE ExpectedRows(_)
\* one row per bar with a convertible first field: the date string, then the other fields
ExpectedRows(h) ==
    IF h = << >> THEN << >>
    ELSE (IF NumericFirst(Head(h))
            THEN << <<DateStr(Head(h).f[1].n)>> \o Tail(Head(h).f) >>
            ELSE << >>) \o ExpectedRows(Tail(h))

\* get_history has just returned to its caller
Returned == pc = "write_open" /\ writes = 0

\* C1: when a page is not a list of bars (an error mapping, null), nothing of
\* that page enters the History and the returned History is exactly the
\* concatenation of the list pages' bars in call order.
CX_C1_NonListPageAddsNothing ==
    (Returned /\ ret = "list") => history = ConcatListPages(responses)

\* C2: for pages < 1 get_history returns an empty History that the caller
\* iterates over zero bars, and no API call is made.
CX_C2_EmptyResultForNoPages ==
    (pages < 1 /\ ret # "unset") =>
        (ret = "list" /\ history = << >> /\ Calls = << >> /\ exc = "none")

\* C3: every loop iteration is one API call followed by one rate limit pause,
\* whatever the page was: after i iterations the event log is i times
\* (call, pause), so a pause lies between any two consecutive calls.
CX_C3_PauseAfterEveryCall ==
    /\ pc = "loop" => Len(log) = 2 * i
    /\ \A k \in 1..Len(log) :
          /\ (k % 2 = 1) => log[k].e = "call"
          /\ (k % 2 = 0) => log[k].e = "sleep"

\* C4: call k requests the window that ends at date - (k-1)*granularity*MAX_RESULTS
\* and starts granularity*MAX_RESULTS earlier (12000 s for granularity 60), each
\* window ending where the previous one started; a run with pages = N >= 1 has
\* made exactly N calls when get_history returns its list.
Thm_C4_Windows ==
    /\ \A k \in 1..Len(Calls) :
          /\ Calls[k].we = date - (k - 1) * granularity * MAX_RESULTS
          /\ Calls[k].ws = Calls[k].we - granularity * MAX_RESULTS
          /\ (granularity = 60 => Calls[k].ws = Calls[k].we - 12000)
          /\ (k > 1 => Calls[k].we = Calls[k - 1].ws)
    /\ ret = "list" => (pages >= 1 /\ Len(Calls) = pages)

\* two pages were fetched without anomaly and get_history returned
Wit_C4_TwoCleanPages ==
    /\ Returned /\ ret = "list" /\ pages = 2
    /\ Len(Calls) = 2
    /\ \A k \in 1..Len(responses) : responses[k].k = "list"
    /\ Calls[2].we = Calls[1].ws

\* the writer is about to process a bar whose first field is None or a string
AtNonNumericBar ==
    pc = "write_loop" /\ widx <= Len(history) /\ NonNumericFirst(history[widx])

\* that step writes nothing, raises nothing and goes on to the next bar
SkipsBar ==
    /\ rows' = rows
    /\ exc' = "none"
    /\ history' = history
    /\ widx' = widx + 1
    /\ pc' = "write_loop"

\* C5: the writer's step on a bar whose first field is None or a string writes
\* no row, raises nothing, leaves the bar alone and moves on to the next bar.
Thm_C5_NonNumericSkipped == [][AtNonNumericBar => SkipsBar]_vars

\* a non-numeric bar was skipped and the bar after it was written
Wit_C5_SkippedThenWritten ==
    /\ pc = "write_loop" /\ writes = 1 /\ widx = 3 /\ exc = "none"
    /\ NonNumericFirst(orig[1])
    /\ NumericFirst(orig[2])
    /\ rows = ExpectedRows(<<orig[2]>>)

\* C6: a write never aborts: every bar whose first field is no timestamp (also
\* an empty bar and an out-of-range number) is skipped and the loop reaches the
\* end of the History.
CX_C6_WriteNeverAborts ==
    (pc = "exit" /\ writes >= 1) => (exc = "none" /\ widx = Len(history) + 1)

\* C7: when a write has ended the file holds exactly one row per bar with a
\* convertible first field, in History order, the date string first and the
\* other fields unchanged; nothing else (no header, no stale content).
CX_C7_RowsAreConvertibleBars ==
    (pc = "exit" /\ writes >= 1) => (fileOpened /\ rows = ExpectedRows(orig))

\* a step of get_history's loop keeps the History it had as a prefix
KeepsPrefix == pc \in {"loop", "extend", "sleep"} => IsPrefix(history, history')

\* C8: inside get_history every step leaves the History it had as a prefix of
\* the History it has next (the returned list is that same History).
Thm_C8_AppendOnly == [][KeepsPrefix]_vars

\* a non-iterable page followed a page of bars, whose bars are all still there
Wit_C8_BadPageKeepsEarlierBars ==
    /\ pc = "loop" /\ i = 2
    /\ responses[1].k = "list" /\ responses[1].items # << >>
    /\ responses[2] = NullPage
    /\ history = responses[1].items

Thm_C10_WriteMutatesHistory ==
    /\ writes >= 1 =>
          /\ Len(history) = Len(orig)
          /\ \A k \in 1..Len(history) :
                IF k < widx /\ NumericFirst(orig[k])
                  THEN history[k] = [orig[k] EXCEPT !.f = <<DateStr(orig[k].f[1].n)>> \o Tail(orig[k].f)]
                  ELSE history[k] = orig[k]
    /\ writes >= 2 => rows = << >>

\* the second write of a History whose bars were written the first time has
\* ended and the file is empty
Wit_C10_SecondWriteEmpty ==
    /\ writes = 2 /\ pc = "exit" /\ exc = "none"
    /\ Len(history) >= 2
    /\ \A k \in 1..Len(history) : history[k].f[1].s = "YYYY-MM-DD HH:MM:SS"
    /\ rows = << >>

====
